---- MODULE Spec2Model ----
\* Model of collatz (src/src/main.cpp): buildUpTo/processValue build the
\* predecessor map, Node's constructor builds the tree rooted at 1,
\* calculateWidth and setPositions lay it out, generateImage sizes the canvas
\* and draws every node.  Recursion is modelled with explicit call stacks.
EXTENDS Integers, Sequences, FiniteSets, TLC

VARIABLES high, pc, nodes, i, arg, ret, callStack, calls,
          tree, ctorStack, posStack, highestX, highestY,
          image, drawList, texts, lines

vars == <<high, pc, nodes, i, arg, ret, callStack, calls,
          tree, ctorStack, posStack, highestX, highestY,
          image, drawList, texts, lines>>

\* ---------------------------------------------------------------- bounds
\* Largest value of <up-to> explored.
MaxHigh == 16
\* Deepest nesting of Node constructors the stack is taken to hold.
MaxDepth == 60

\* The values of `high` explored: the two failing inputs and 1..MaxHigh.
HighInputs == {-5, 0} \cup (1..MaxHigh)

\* ------------------------------------------------------------- constants
nodeHeight == 20
nodeSpacing == 10
imagePadding == 80
charWidth == 8

\* --------------------------------------------------------------- helpers
\* C++ integer division truncates toward zero (b > 0).
CDiv(a, b) == IF a >= 0 THEN a \div b ELSE -((-a) \div b)

Max(a, b) == IF a >= b THEN a ELSE b
Min(a, b) == IF a <= b THEN a ELSE b

Range(s) == {s[k] : k \in 1..Len(s)}

\* Length of the text operator<< produces for an int.
RECURSIVE textSize(_)
textSize(v) ==
  IF v < 0 THEN 1 + textSize(-v)
  ELSE IF v < 10 THEN 1 ELSE 1 + textSize(v \div 10)

\* Node::textWidth
textWidth(v) == charWidth * textSize(v)

\* processValue: int next = value % 2 == 0 ? value / 2 : 3 * value + 1
NextOfHalfOrInc(value) == IF value % 2 = 0 THEN CDiv(value, 2) ELSE value + 1
NextOf(value) == IF value % 2 = 0 THEN CDiv(value, 2) ELSE 3 * value + 1

\* buildUpTo: if (high <= 0) throw
InvalidRangeStrict(h) == h < 0
InvalidRange(h) == h <= 0

\* buildUpTo: nodes[1] = std::vector<int>{}
SeedNodesNone == <<>>
SeedNodes == (1 :> <<>>)

\* A freshly constructed Node: value_ set, above_ empty, positions 0.
\* width has no initializer; it is assigned by calculateWidth before any read.
NewNode(v) ==
  [value |-> v, above |-> <<>>, positionX |-> 0, positionY |-> 0, width |-> 0]

\* The nodes of the subtree rooted at n (n and everything reached via above_).
RECURSIVE Subtree(_, _)
Subtree(t, n) == {n} \cup UNION {Subtree(t, c) : c \in Range(t[n].above)}

\* The value Node::calculateWidth returns for node n of tree t.  SumAbove is
\* its range-for: width += x.calculateWidth() for every x of above_.
RECURSIVE calculateWidthValue(_, _), SumAbove(_, _, _),
          calculateWidthNoText(_, _), SumAboveNoText(_, _, _)

SumAboveNoText(t, n, k) ==
  IF k > Len(t[n].above) THEN 0
  ELSE calculateWidthNoText(t, t[n].above[k]) + SumAboveNoText(t, n, k + 1)

calculateWidthNoText(t, n) ==
  LET textWidthVal == textWidth(t[n].value) IN
  IF t[n].above = <<>> THEN textWidthVal
  ELSE (Len(t[n].above) - 1) * nodeSpacing + SumAboveNoText(t, n, 1)

SumAbove(t, n, k) ==
  IF k > Len(t[n].above) THEN 0
  ELSE calculateWidthValue(t, t[n].above[k]) + SumAbove(t, n, k + 1)

calculateWidthValue(t, n) ==
  LET textWidthVal == textWidth(t[n].value) IN
  IF t[n].above = <<>> THEN textWidthVal
  ELSE LET width == (Len(t[n].above) - 1) * nodeSpacing + SumAbove(t, n, 1)
       IN IF textWidthVal > width THEN textWidthVal ELSE width

\* The effect of Node::calculateWidth on node n: every node of n's subtree
\* has its width member assigned the value its own calculateWidth returns.
CalculateWidth(t, n) ==
  [m \in 1..Len(t) |->
     IF m \in Subtree(t, n)
     THEN [t[m] EXCEPT !.width = calculateWidthValue(t, m)]
     ELSE t[m]]

\* setPositions: int offsetX = -width / 2
StartOffsetXZero(width) == 0
StartOffsetX(width) == CDiv(-width, 2)

\* setPositions: posX = x + offsetX + above_[i].width / 2
ChildPosX(x, offsetX, w) == x + offsetX + CDiv(w, 2)

\* setPositions: posY = y - nodeSpacing - nodeHeight
ChildPosY(y) == y - nodeSpacing - nodeHeight

\* setPositions: offsetX += above_[i].width + nodeSpacing
AdvanceOffsetNoWidth(offsetX, w) == offsetX + nodeSpacing
AdvanceOffset(offsetX, w) == offsetX + w + nodeSpacing

\* setPositions: highestX_ = std::max(highestX_, posX)
UpdateHighestX(h, posX) == Max(h, posX)

\* setPositions: highestY_ = std::min(highestY_, posY)
UpdateHighestYMax(h, posY) == Max(h, posY)
UpdateHighestY(h, posY) == Min(h, posY)

\* Node::draw: the (below, current) pairs in the order drawFunc receives them;
\* below = 0 stands for nullptr.
RECURSIVE Draw(_, _, _), DrawAbove(_, _, _)
DrawAbove(t, n, k) ==
  IF k > Len(t[n].above) THEN <<>>
  ELSE Draw(t, t[n].above[k], n) \o DrawAbove(t, n, k + 1)
Draw(t, n, below) == <<[below |-> below, current |-> n]>> \o DrawAbove(t, n, 1)

NoImage == [imageWidth |-> 0, imageHeight |-> 0,
            globalOffsetX |-> 0, globalOffsetY |-> 0]

\* ------------------------------------------------------------------ Init
Init ==
  /\ high \in HighInputs
  /\ pc = "main"
  /\ nodes = <<>>
  /\ i = 0
  /\ arg = 0
  /\ ret = 0
  /\ callStack = <<>>
  /\ calls = 0
  /\ tree = <<>>
  /\ ctorStack = <<>>
  /\ posStack = <<>>
  /\ highestX = 0
  /\ highestY = 0
  /\ image = NoImage
  /\ drawList = <<>>
  /\ texts = <<>>
  /\ lines = <<>>

\* --------------------------------------------------------------- actions
\* buildUpTo entry: the range check, then the seed of key 1 and i = 2.
BuildUpToEnter ==
  /\ pc = "main"
  /\ IF InvalidRange(high)
     THEN /\ pc' = "InvalidRangeError"
          /\ UNCHANGED <<nodes, i>>
     ELSE /\ nodes' = SeedNodes
          /\ i' = 2
          /\ pc' = "loop"
  /\ UNCHANGED <<high, arg, ret, callStack, calls, tree, ctorStack, posStack,
                 highestX, highestY, image, drawList, texts, lines>>

\* for (int i = 2; i < high; i++) processValue(nodes, i): test and call.
ForLoop ==
  /\ pc = "loop"
  /\ IF i < high
     THEN /\ arg' = i
          /\ pc' = "processValue"
     ELSE /\ pc' = "built"
          /\ UNCHANGED arg
  /\ UNCHANGED <<high, nodes, i, ret, callStack, calls, tree, ctorStack,
                 posStack, highestX, highestY, image, drawList, texts, lines>>

\* processValue entry up to its recursive call or its early return.
ProcessValueEnter ==
  /\ pc = "processValue"
  /\ calls' = calls + 1
  /\ IF arg \in DOMAIN nodes
     THEN /\ ret' = arg
          /\ pc' = "return"
          /\ UNCHANGED <<nodes, callStack, arg>>
     ELSE /\ nodes' = (arg :> <<>>) @@ nodes
          /\ callStack' = <<arg>> \o callStack
          /\ arg' = NextOf(arg)
          /\ UNCHANGED <<ret, pc>>
  /\ UNCHANGED <<high, i, tree, ctorStack, posStack, highestX, highestY,
                 image, drawList, texts, lines>>

\* Back in a processValue frame: push_back(value) on the returned vector,
\* then return nodes[value].
ProcessValuePushBack ==
  /\ pc = "return"
  /\ callStack # <<>>
  /\ LET value == Head(callStack) IN
       /\ nodes' = [nodes EXCEPT ![ret] = Append(@, value)]
       /\ ret' = value
  /\ callStack' = Tail(callStack)
  /\ UNCHANGED <<high, pc, i, arg, calls, tree, ctorStack, posStack,
                 highestX, highestY, image, drawList, texts, lines>>

\* The outermost processValue returned to the loop: i++.
ForLoopNext ==
  /\ pc = "return"
  /\ callStack = <<>>
  /\ i' = i + 1
  /\ pc' = "loop"
  /\ UNCHANGED <<high, nodes, arg, ret, callStack, calls, tree, ctorStack,
                 posStack, highestX, highestY, image, drawList, texts, lines>>

\* generateImage: auto rootNode = Node{1, nodes}, up to the loop over above.
RootCtorEnter ==
  /\ pc = "built"
  /\ IF 1 \notin DOMAIN nodes
     THEN /\ pc' = "DataIntegrityError"
          /\ UNCHANGED <<tree, ctorStack>>
     ELSE /\ tree' = <<NewNode(1)>>
          /\ ctorStack' = <<[n |-> 1, k |-> 1]>>
          /\ pc' = "ctor"
  /\ UNCHANGED <<high, nodes, i, arg, ret, callStack, calls, posStack,
                 highestX, highestY, image, drawList, texts, lines>>

\* Node::Node, one iteration of `for (v : above)`: enter Node{v, nodes}.
NodeCtorChild ==
  /\ pc = "ctor"
  /\ LET top   == Head(ctorStack)
         above == nodes[tree[top.n].value]
     IN /\ top.k <= Len(above)
        /\ LET v == above[top.k] IN
           IF Len(ctorStack) >= MaxDepth
           THEN /\ pc' = "StackOverflow"
                /\ UNCHANGED <<tree, ctorStack>>
           ELSE IF v \notin DOMAIN nodes
           THEN /\ pc' = "DataIntegrityError"
                /\ UNCHANGED <<tree, ctorStack>>
           ELSE /\ tree' = Append(tree, NewNode(v))
                /\ ctorStack' = <<[n |-> Len(tree) + 1, k |-> 1],
                                  [top EXCEPT !.k = @ + 1]>>
                                \o Tail(ctorStack)
                /\ UNCHANGED pc
  /\ UNCHANGED <<high, nodes, i, arg, ret, callStack, calls, posStack,
                 highestX, highestY, image, drawList, texts, lines>>

\* Node::Node after the loop: calculateWidth(), then the caller's
\* above_.push_back of the finished node.
NodeCtorFinish ==
  /\ pc = "ctor"
  /\ LET top   == Head(ctorStack)
         above == nodes[tree[top.n].value]
         rest  == Tail(ctorStack)
         t1    == CalculateWidth(tree, top.n)
     IN /\ top.k > Len(above)
        /\ ctorStack' = rest
        /\ IF rest = <<>>
           THEN /\ tree' = t1
                /\ pc' = "constructed"
           ELSE /\ tree' = [t1 EXCEPT ![Head(rest).n].above = Append(@, top.n)]
                /\ UNCHANGED pc
  /\ UNCHANGED <<high, nodes, i, arg, ret, callStack, calls, posStack,
                 highestX, highestY, image, drawList, texts, lines>>

\* rootNode.setPositions(0, 0), up to its loop.
SetPositionsRoot ==
  /\ pc = "constructed"
  /\ tree' = [tree EXCEPT ![1].positionX = 0, ![1].positionY = 0]
  /\ posStack' = <<[n |-> 1, i |-> 1, offsetX |-> StartOffsetX(tree[1].width)]>>
  /\ pc' = "setPositions"
  /\ UNCHANGED <<high, nodes, i, arg, ret, callStack, calls, ctorStack,
                 highestX, highestY, image, drawList, texts, lines>>

\* setPositions, one loop iteration: place child i and enter its setPositions.
SetPositionsChild ==
  /\ pc = "setPositions"
  /\ LET top == Head(posStack)
         me  == tree[top.n]
     IN /\ top.i <= Len(me.above)
        /\ LET c    == me.above[top.i]
               posX == ChildPosX(me.positionX, top.offsetX, tree[c].width)
               posY == ChildPosY(me.positionY)
           IN /\ highestX' = UpdateHighestX(highestX, posX)
              /\ highestY' = UpdateHighestY(highestY, posY)
              /\ tree' = [tree EXCEPT ![c].positionX = posX,
                                      ![c].positionY = posY]
              /\ posStack' =
                   <<[n |-> c, i |-> 1, offsetX |-> StartOffsetX(tree[c].width)],
                     [top EXCEPT !.i = @ + 1,
                                 !.offsetX = AdvanceOffset(@, tree[c].width)]>>
                   \o Tail(posStack)
  /\ UNCHANGED <<high, pc, nodes, i, arg, ret, callStack, calls, ctorStack,
                 image, drawList, texts, lines>>

\* setPositions returns once its loop is over.
SetPositionsReturn ==
  /\ pc = "setPositions"
  /\ LET top == Head(posStack) IN top.i > Len(tree[top.n].above)
  /\ posStack' = Tail(posStack)
  /\ pc' = IF Tail(posStack) = <<>> THEN "positioned" ELSE pc
  /\ UNCHANGED <<high, nodes, i, arg, ret, callStack, calls, tree, ctorStack,
                 highestX, highestY, image, drawList, texts, lines>>

\* generateImage: canvas size and global offsets, then rootNode.draw(...).
GenerateImageCanvas ==
  /\ pc = "positioned"
  /\ LET imageWidth  == tree[1].width + imagePadding * 2
         imageHeight == imagePadding * 2 - highestY
     IN image' = [imageWidth    |-> imageWidth,
                  imageHeight   |-> imageHeight,
                  globalOffsetX |-> CDiv(imageWidth, 2),
                  globalOffsetY |-> imageHeight - imagePadding]
  /\ drawList' = Draw(tree, 1, 0)
  /\ pc' = "draw"
  /\ UNCHANGED <<high, nodes, i, arg, ret, callStack, calls, tree, ctorStack,
                 posStack, highestX, highestY, texts, lines>>

\* The draw callback for one (below, current) pair: the text label, and the
\* line to the node below when there is one.
DrawNode ==
  /\ pc = "draw"
  /\ drawList # <<>>
  /\ LET d       == Head(drawList)
         current == tree[d.current]
     IN /\ texts' = Append(texts,
                      [x |-> current.positionX + image.globalOffsetX
                               - CDiv(textWidth(current.value), 2),
                       y |-> current.positionY + image.globalOffsetY,
                       text |-> current.value])
        /\ IF d.below # 0
           THEN LET below == tree[d.below] IN
                lines' = Append(lines,
                  [startX |-> current.positionX + image.globalOffsetX,
                   startY |-> current.positionY + image.globalOffsetY + 8,
                   endX   |-> below.positionX + image.globalOffsetX,
                   endY   |-> below.positionY + image.globalOffsetY - 15])
           ELSE UNCHANGED lines
  /\ drawList' = Tail(drawList)
  /\ UNCHANGED <<high, pc, nodes, i, arg, ret, callStack, calls, tree,
                 ctorStack, posStack, highestX, highestY, image>>

\* image.write(outFileName) after the walk; main prints "Done".
ImageWrite ==
  /\ pc = "draw"
  /\ drawList = <<>>
  /\ pc' = "done"
  /\ UNCHANGED <<high, nodes, i, arg, ret, callStack, calls, tree, ctorStack,
                 posStack, highestX, highestY, image, drawList, texts, lines>>

Next ==
  \/ BuildUpToEnter
  \/ ForLoop
  \/ ProcessValueEnter
  \/ ProcessValuePushBack
  \/ ForLoopNext
  \/ RootCtorEnter
  \/ NodeCtorChild
  \/ NodeCtorFinish
  \/ SetPositionsRoot
  \/ SetPositionsChild
  \/ SetPositionsReturn
  \/ GenerateImageCanvas
  \/ DrawNode
  \/ ImageWrite

Spec == Init /\ [][Next]_vars

\* ------------------------------------------------- vocabulary of the claims
\* The Collatz successor as the specification defines it.
CollatzNext(n) == IF n % 2 = 0 THEN n \div 2 ELSE 3 * n + 1

\* The values on the trajectory of n before it reaches 1.
RECURSIVE TrajectoryBeforeOne(_)
TrajectoryBeforeOne(n) ==
  IF n = 1 THEN {} ELSE {n} \cup TrajectoryBeforeOne(CollatzNext(n))

\* Number of decimal digits of a positive integer, and the label width.
DecimalDigits(n) ==
  IF n < 10 THEN 1 ELSE IF n < 100 THEN 2 ELSE IF n < 1000 THEN 3
  ELSE IF n < 10000 THEN 4 ELSE 5
LabelWidth(n) == 8 * DecimalDigits(n)

Occurrences(s, v) == Cardinality({k \in 1..Len(s) : s[k] = v})

RECURSIVE SumWidths(_, _)
SumWidths(t, ch) ==
  IF ch = <<>> THEN 0 ELSE t[Head(ch)].width + SumWidths(t, Tail(ch))

Abs(x) == IF x < 0 THEN -x ELSE x

LeftEdge(nd) == nd.positionX - nd.width \div 2
RightEdge(nd) == nd.positionX + nd.width \div 2

\* Stages of the run.
MapReturned ==
  pc \in {"built", "ctor", "constructed", "setPositions", "positioned",
          "draw", "done"}
TreeBuilt == pc \in {"constructed", "setPositions", "positioned", "draw", "done"}
Positioned == pc \in {"positioned", "draw", "done"}
CanvasSized == pc \in {"draw", "done"}

\* ---------------------------------------------------------------- claims
\* C1: in the map returned by buildUpTo(high), high > 0, every key n other
\* than 1 has next(n) as a key and occurs exactly once in map[next(n)].
C1_PredecessorLinks ==
  MapReturned =>
    \A n \in DOMAIN nodes :
      n # 1 => /\ CollatzNext(n) \in DOMAIN nodes
               /\ Occurrences(nodes[CollatzNext(n)], n) = 1

C1_Witness ==
  /\ pc = "built"
  /\ \E n \in DOMAIN nodes :
       /\ n >= high
       /\ Len(nodes[n]) = 2
       /\ \A m \in Range(nodes[n]) : CollatzNext(m) = n

\* C2: the key set of buildUpTo(high), high > 0, is exactly {1}, every i in
\* 2..high-1, and every value >= high on the trajectory of such an i before
\* it reaches 1; so all of [1, high) are keys and nothing else is.
C2_KeySet ==
  MapReturned =>
    /\ DOMAIN nodes =
         {1} \cup (2..(high - 1))
             \cup {v \in UNION {TrajectoryBeforeOne(j) : j \in 2..(high - 1)} :
                     v >= high}
    /\ \A j \in 1..(high - 1) : j \in DOMAIN nodes
    /\ \A k \in DOMAIN nodes : k >= 1

C2_Witness ==
  /\ pc = "built"
  /\ high >= 4
  /\ \E k \in DOMAIN nodes : k > high
  /\ \E v \in high..(3 * high) : v \notin DOMAIN nodes

\* C3 as stated: for buildUpTo(5), map[1] contains 2, map[2] contains 4,
\* map[4] contains both 2 and 8, and every integer of [1,5) is a key.
C3_Original ==
  (MapReturned /\ high = 5) =>
    /\ 2 \in Range(nodes[1])
    /\ 4 \in Range(nodes[2])
    /\ {2, 8} \subseteq Range(nodes[4])
    /\ \A j \in 1..4 : j \in DOMAIN nodes

\* C3 amended: for buildUpTo(5), map[1] contains 2, map[2] contains 4,
\* map[4] contains 8 and does not contain 2, and every integer of [1,5) is a
\* key.
C3_Scenario ==
  (MapReturned /\ high = 5) =>
    /\ 2 \in Range(nodes[1])
    /\ 4 \in Range(nodes[2])
    /\ 8 \in Range(nodes[4])
    /\ 2 \notin Range(nodes[4])
    /\ \A j \in 1..4 : j \in DOMAIN nodes

C3_Witness ==
  /\ pc = "built"
  /\ high = 5
  /\ nodes[4] = <<8>>

\* C4: buildUpTo(high) with high <= 0 ends in InvalidRangeError before any
\* processing: no key is inserted, not even 1, and processValue is never
\* invoked; with high > 0 the error is never raised.
C4_InvalidRange ==
  /\ high <= 0 => /\ pc \in {"main", "InvalidRangeError"}
                  /\ DOMAIN nodes = {}
                  /\ calls = 0
  /\ high > 0 => pc # "InvalidRangeError"

C4_Witness ==
  /\ pc = "InvalidRangeError"
  /\ high = -5
  /\ DOMAIN nodes = {}

\* C5: after construction every node's width is textWidth(value) when it has
\* no children, and otherwise the larger of textWidth(value) and the sum of
\* its children's widths plus 10 per gap between children.
C5_WidthFormula ==
  TreeBuilt =>
    \A n \in 1..Len(tree) :
      LET nd  == tree[n]
          sum == SumWidths(tree, nd.above) + 10 * (Len(nd.above) - 1)
      IN /\ nd.width = IF nd.above = <<>> THEN LabelWidth(nd.value)
                       ELSE Max(LabelWidth(nd.value), sum)
         /\ nd.width >= LabelWidth(nd.value)
         /\ nd.above # <<>> => nd.width >= sum

C5_Witness ==
  /\ pc = "constructed"
  /\ \E n \in 1..Len(tree) :
       /\ tree[n].above # <<>>
       /\ LabelWidth(tree[n].value) > SumWidths(tree, tree[n].above)
  /\ \E n \in 1..Len(tree) :
       /\ Len(tree[n].above) = 2
       /\ tree[n].width > LabelWidth(tree[n].value)

\* C6: after setPositions(0, 0) on the root, any two distinct children of a
\* node are at least half the sum of their widths apart, so the spans of
\* sibling subtrees do not overlap.
C6_SiblingsApart ==
  Positioned =>
    \A n \in 1..Len(tree) :
      \A j, k \in 1..Len(tree[n].above) :
        j < k =>
          LET c1 == tree[tree[n].above[j]]
              c2 == tree[tree[n].above[k]]
          IN /\ Abs(c1.positionX - c2.positionX) >= (c1.width + c2.width) \div 2
             /\ RightEdge(c1) <= LeftEdge(c2)

C6_Witness ==
  /\ pc = "positioned"
  /\ \E n \in 1..Len(tree) :
       /\ Len(tree[n].above) = 2
       /\ tree[tree[n].above[1]].positionX < tree[tree[n].above[2]].positionX

\* C7: after setPositions, the span of every descendant d of a node n, and
\* so d's text label, lies inside the span of n.
C7_FootprintInside ==
  Positioned =>
    \A n \in 1..Len(tree) :
      \A d \in Subtree(tree, n) :
        /\ LeftEdge(tree[n]) <= LeftEdge(tree[d])
        /\ RightEdge(tree[d]) <= RightEdge(tree[n])
        /\ LeftEdge(tree[n]) <= tree[d].positionX - LabelWidth(tree[d].value) \div 2
        /\ tree[d].positionX + LabelWidth(tree[d].value) \div 2 <= RightEdge(tree[n])

C7_Witness ==
  /\ pc = "positioned"
  /\ \E n \in 1..Len(tree) :
       \E d \in Subtree(tree, n) :
         /\ d # n
         /\ tree[d].width < tree[n].width
         /\ tree[d].positionX # tree[n].positionX

\* C8: in generateImage the canvas is root.width + 160 wide and
\* 160 - highestY high, highestY is the least positionY of the tree, and
\* every node's label lies on the canvas.
C8_OnCanvas ==
  CanvasSized =>
    /\ image.imageWidth = tree[1].width + 160
    /\ image.imageHeight = 160 - highestY
    /\ image.globalOffsetX = image.imageWidth \div 2
    /\ image.globalOffsetY = image.imageHeight - 80
    /\ \A n \in 1..Len(tree) : highestY <= tree[n].positionY
    /\ \E n \in 1..Len(tree) : highestY = tree[n].positionY
    /\ \A n \in 1..Len(tree) :
         LET nd == tree[n]
             tw == LabelWidth(nd.value)
         IN /\ 0 <= nd.positionX + image.globalOffsetX - tw \div 2
            /\ nd.positionX + image.globalOffsetX + tw \div 2 <= image.imageWidth
            /\ 0 <= nd.positionY + image.globalOffsetY
            /\ nd.positionY + image.globalOffsetY <= image.imageHeight
    /\ \A k \in 1..Len(texts) :
         /\ 0 <= texts[k].x /\ texts[k].x <= image.imageWidth
         /\ 0 <= texts[k].y /\ texts[k].y <= image.imageHeight

C8_Witness ==
  /\ pc = "done"
  /\ Len(texts) = Len(tree)
  /\ highestY <= -90
  /\ \E n \in 1..Len(tree) : tree[n].positionX < 0

\* C9: after setPositions the children of every node with children are
\* centered under it: the midpoint of the span from the first child's left
\* edge to the last child's right edge is the parent's positionX.
C9_ChildrenCentered ==
  Positioned =>
    \A n \in 1..Len(tree) :
      tree[n].above # <<>> =>
        LET first == tree[tree[n].above[1]]
            last  == tree[tree[n].above[Len(tree[n].above)]]
        IN LeftEdge(first) + RightEdge(last) = 2 * tree[n].positionX

\* C10: building the tree for root 1 from the map of buildUpTo(high),
\* high > 0, ends without DataIntegrityError in a finite tree in which every
\* key is the value of exactly one node and every node's value is a key; 1 is
\* in no predecessor sequence.
C10_TreeMatchesMap ==
  /\ pc \notin {"DataIntegrityError", "StackOverflow"}
  /\ Len(tree) <= Cardinality(DOMAIN nodes)
  /\ \A k \in DOMAIN nodes : 1 \notin Range(nodes[k])
  /\ TreeBuilt =>
       /\ \A k \in DOMAIN nodes :
            Cardinality({n \in 1..Len(tree) : tree[n].value = k}) = 1
       /\ \A n \in 1..Len(tree) : tree[n].value \in DOMAIN nodes
       /\ Subtree(tree, 1) = 1..Len(tree)
       /\ \A n \in 1..Len(tree) :
            \A c \in Range(tree[n].above) : n \notin Subtree(tree, c)

C10_Witness ==
  /\ pc = "constructed"
  /\ Len(tree) = Cardinality(DOMAIN nodes)
  /\ Len(tree) > 10
  /\ \E n \in 1..Len(tree) : tree[n].value = 4 /\ Len(tree[n].above) = 1

====
